---- MODULE Spec2Model ----
(***************************************************************************)
(* PhishShield extension: the background service worker (URL cache, scan   *)
(* dispatcher, badge, notifications, message router) and the popup's bulk  *)
(* link scan, as state machines.                                           *)
(*                                                                         *)
(* Sizes are scaled: CACHE_TTL is counted in clock ticks instead of        *)
(* milliseconds, the cache limit 1000/500 is CACHE_MAX/CACHE_KEEP and the  *)
(* link limit 50 is LINK_LIMIT.  The comparisons are the ones of the code. *)
(***************************************************************************)
EXTENDS Integers, Sequences, FiniteSets, TLC

VARIABLES
    now,          \* Date.now(), in ticks
    urlCache,     \* the Map urlCache, as the sequence of its entries in Map order
    badge,        \* per tab: the badge text and background colour
    settings,     \* chrome.storage.local: the showNotifications key
    inflight,     \* scanUrl calls suspended at `await fetch`, in start order
    pendingNotif, \* showNotification calls waiting for the storage callback
    pageLinksStats, \* chrome.storage.local: the pageLinksStats key
    bulk,         \* the popup's scanPageLinks run
    events,       \* browser events and messages delivered so far
    last          \* what the most recent handler step did (observation only)

vars == <<now, urlCache, badge, settings, inflight, pendingNotif, pageLinksStats, bulk, events, last>>

-----------------------------------------------------------------------------
(* Bounds of the model *)

MaxTime == 4        \* the clock stops here
MaxEvents == 3      \* browser events and messages delivered in a run
MaxInflight == 2    \* scanUrl calls suspended at once
MaxNotif == 1       \* storage callbacks pending at once
MaxLinks == 3       \* length of the link list the content script returns
MaxRuns == 2        \* runs of scanPageLinks

(* Program constants, scaled *)

CACHE_TTL == 2      \* 5 * 60 * 1000 ms
CACHE_MAX == 2      \* 1000
CACHE_KEEP == 1     \* 500
LINK_LIMIT == 2     \* 50

TabIds == {1}

-----------------------------------------------------------------------------
(* URLs are sequences of characters *)

LowerChar(c) ==
    CASE c = "A" -> "a"
      [] c = "B" -> "b"
      [] c = "H" -> "h"
      [] c = "T" -> "t"
      [] c = "P" -> "p"
      [] OTHER -> c

\* a key that is the URL as given
toLowerCaseId(url) == url

toLowerCase(url) == [i \in DOMAIN url |-> LowerChar(url[i])]

startsWith(url, prefix) ==
    /\ Len(url) >= Len(prefix)
    /\ SubSeq(url, 1, Len(prefix)) = prefix

HTTP == <<"h", "t", "t", "p">>
HTTP_SCHEME == <<"h", "t", "t", "p", ":", "/", "/">>
HTTPS_SCHEME == <<"h", "t", "t", "p", "s", ":", "/", "/">>

UrlA == <<"h", "t", "t", "p", ":", "/", "/", "a">>
UrlAUpper == <<"h", "t", "t", "p", ":", "/", "/", "A">>
UrlB == <<"h", "t", "t", "p", "s", ":", "/", "/", "b">>
UrlFtp == <<"f", "t", "p", ":", "/", "/", "c">>

NoUrl == <<>>   \* tab.url is undefined

Urls == {UrlA, UrlAUpper, UrlB, UrlFtp}

\* the spec's eligibility: the URL begins with http:// or https://
Eligible(url) == startsWith(url, HTTP_SCHEME) \/ startsWith(url, HTTPS_SCHEME)

-----------------------------------------------------------------------------
(* Values *)

Null == [isNull |-> TRUE]

VerdictSafe == [risk |-> "safe", score |-> 10]
VerdictSuspicious == [risk |-> "suspicious", score |-> 60]
VerdictMalicious == [risk |-> "malicious", score |-> 92]
Verdicts == {VerdictSafe, VerdictSuspicious, VerdictMalicious}

\* JSON bodies the service may answer with
BodyDetail == [detail |-> "Internal Server Error"]   \* no risk, no error
BodyError == [error |-> "bad url"]
NotJson == [notJson |-> TRUE]                        \* response.json() rejects
JsonNull == Null                                     \* the JSON value null

Bodies == Verdicts \cup {BodyDetail, BodyError, NotJson, JsonNull}

\* outcome of fetch: a network error, or a response with a status and a body
NetworkError == [networkError |-> TRUE]
Responses ==
    {NetworkError} \cup [status : {200}, body : Bodies]
                   \cup [status : {500}, body : {BodyDetail, NotJson}]

Has(obj, fld) == fld \in DOMAIN obj

\* obj.risk, "undefined" when the property is missing
RiskOf(obj) == IF Has(obj, "risk") THEN obj.risk ELSE "undefined"

Risks == {"safe", "suspicious", "malicious", "unknown", "undefined"}

-----------------------------------------------------------------------------
(* The Map urlCache: a sequence of entries [key, result, timestamp] in       *)
(* insertion order, one entry per key                                        *)

NoEntry == [noEntry |-> TRUE]

MapKeys(m) == {m[i].key : i \in DOMAIN m}

MapGet(m, k) ==
    IF k \in MapKeys(m)
    THEN LET i == CHOOSE j \in DOMAIN m : m[j].key = k IN m[i]
    ELSE NoEntry

\* the first value stored under a key stays
MapSetKeepFirst(m, k, res, t) ==
    IF k \in MapKeys(m)
    THEN m
    ELSE Append(m, [key |-> k, result |-> res, timestamp |-> t])

\* Map.prototype.set: an existing key keeps its place, a new key goes last
MapSet(m, k, res, t) ==
    LET e == [key |-> k, result |-> res, timestamp |-> t] IN
    IF k \in MapKeys(m)
    THEN [i \in DOMAIN m |-> IF m[i].key = k THEN e ELSE m[i]]
    ELSE Append(m, e)

MapDeleteAll(m, ks) == SelectSeq(m, LAMBDA e : e.key \notin ks)

\* Array.prototype.sort with (a, b) => a[1].timestamp - b[1].timestamp: stable
RECURSIVE InsertByTimestamp(_, _)
InsertByTimestamp(sorted, e) ==
    IF sorted = <<>> THEN <<e>>
    ELSE IF Head(sorted).timestamp <= e.timestamp
         THEN <<Head(sorted)>> \o InsertByTimestamp(Tail(sorted), e)
         ELSE <<e>> \o sorted

RECURSIVE SortByTimestamp(_)
SortByTimestamp(entries) ==
    IF entries = <<>> THEN <<>>
    ELSE InsertByTimestamp(SortByTimestamp(SubSeq(entries, 1, Len(entries) - 1)),
                           entries[Len(entries)])

\* the subtraction the wrong way round: never reaches CACHE_TTL
CacheFreshSwapped(entry, t) == entry.timestamp - t < CACHE_TTL

\* the comparison the wrong way round
CacheFreshInverted(entry, t) == t - entry.timestamp > CACHE_TTL

\* scanUrl's freshness test: Date.now() - cached.timestamp < CACHE_TTL
CacheFresh(entry, t) == t - entry.timestamp < CACHE_TTL

\* cleanCache's expiry test: now - value.timestamp > CACHE_TTL
Expired(entry, t) == t - entry.timestamp > CACHE_TTL

SweepExpired(m, t) == SelectSeq(m, LAMBDA e : ~Expired(e, t))

\* the size limit with the sort descending: the newest entries are deleted
LimitSizeNewestFirst(m) ==
    IF Len(m) > CACHE_MAX
    THEN LET entries == SortByTimestamp(m)
             gone == {entries[i].key : i \in (CACHE_KEEP + 1)..Len(entries)}
         IN MapDeleteAll(m, gone)
    ELSE m

\* the size limit of cleanCache: above CACHE_MAX, delete the entries.length -
\* CACHE_KEEP entries that come first in timestamp order
LimitSize(m) ==
    IF Len(m) > CACHE_MAX
    THEN LET entries == SortByTimestamp(m)
             gone == {entries[i].key : i \in 1..(Len(entries) - CACHE_KEEP)}
         IN MapDeleteAll(m, gone)
    ELSE m

cleanCache(m, t) == LimitSize(SweepExpired(m, t))

-----------------------------------------------------------------------------
(* Badge *)

BADGE_COLORS == [safe |-> "#10b981", suspicious |-> "#f59e0b", malicious |-> "#ef4444",
                 loading |-> "#3b82f6", error |-> "#6b7280"]

NoColor == "none"   \* no tab-specific colour set yet

\* the badge is left empty while the scan runs
BadgeLoadingEmpty == [text |-> "", color |-> BADGE_COLORS.loading]

BadgeLoading == [text |-> "...", color |-> BADGE_COLORS.loading]
BadgeError == [text |-> "!", color |-> BADGE_COLORS.error]

\* the key of the suspicious configuration is misspelt
updateBadgeMisspelt(risk) ==
    CASE risk = "safe" -> [text |-> "check", color |-> BADGE_COLORS.safe]
      [] risk = "suspicous" -> [text |-> "!", color |-> BADGE_COLORS.suspicious]
      [] risk = "malicious" -> [text |-> "cross", color |-> BADGE_COLORS.malicious]
      [] OTHER -> [text |-> "?", color |-> BADGE_COLORS.error]

\* updateBadge(risk, tabId): the text and colour it sets
updateBadge(risk) ==
    CASE risk = "safe" -> [text |-> "check", color |-> BADGE_COLORS.safe]
      [] risk = "suspicious" -> [text |-> "!", color |-> BADGE_COLORS.suspicious]
      [] risk = "malicious" -> [text |-> "cross", color |-> BADGE_COLORS.malicious]
      [] OTHER -> [text |-> "?", color |-> BADGE_COLORS.error]

\* setBadgeText({ text: '' }) leaves the colour as it is
ClearText(b) == [b EXCEPT !.text = ""]

\* the state of the spec's badge state machine a badge displays
BadgeState(b) ==
    CASE b.text = "" -> "Cleared"
      [] b.text = "..." -> "Loading"
      [] b.text = "check" -> "Safe"
      [] b.text = "cross" -> "Malicious"
      [] b.text = "?" -> "Unknown"
      [] b.text = "!" /\ b.color = BADGE_COLORS.suspicious -> "Suspicious"
      [] OTHER -> "Error"

-----------------------------------------------------------------------------
(* Observation of a handler step *)

Pending == [pending |-> TRUE]     \* scanUrl is suspended at `await fetch`
NoValue == [noValue |-> TRUE]     \* the step returns nothing

Obs(op, url, tab) ==
    [op |-> op, url |-> url, tab |-> tab,
     scanned |-> FALSE,    \* scanUrl was entered
     entryAge |-> -1,      \* age of the cache entry scanUrl found, -1 for none
     hit |-> FALSE,        \* scanUrl returned the cached result
     fetched |-> FALSE,    \* a remote call was issued
     stored |-> FALSE,     \* urlCache.set was called
     setSize |-> -1,       \* urlCache.size right after urlCache.set
     sweptSize |-> -1,     \* urlCache.size after cleanCache's expiry loop
     evictedNewest |-> -1, \* newest timestamp the size limit deleted, -1 for none
     notify |-> FALSE,     \* showNotification was called
     alert |-> FALSE,      \* chrome.notifications.create was called
     setting |-> "none",   \* showNotifications as the storage callback saw it
     resp |-> NoValue,     \* the outcome of the fetch
     ret |-> NoValue,      \* what scanUrl returned
     reply |-> NoValue,    \* what sendResponse was called with
     replaced |-> NoEntry, \* the entry urlCache.set overwrote
     first |-> NoValue,    \* the badge scanUrl set before it read the cache
     slot |-> 0,           \* the place of the answered scan among the pending ones
     risk |-> "none"]      \* the risk updateBadge was called with

-----------------------------------------------------------------------------
(* Background service worker *)

ShowValues == {"absent", "true", "false"}

\* the popup is not scanning links
BulkIdle == [pc |-> "idle"]

Init ==
    /\ now = 0
    /\ urlCache = <<>>
    /\ badge = [t \in TabIds |-> [text |-> "", color |-> NoColor]]
    /\ settings \in ShowValues      \* storage outlives the service worker
    /\ inflight = <<>>
    /\ pendingNotif = <<>>
    /\ pageLinksStats = {}
    /\ bulk = BulkIdle
    /\ events = 0
    /\ last = Obs("start", NoUrl, 1)

\* time passes: Date.now() is d ticks later
TickBy(d) ==
    /\ now + d <= MaxTime
    /\ now' = now + d
    /\ last' = Obs("tick", NoUrl, 1)
    /\ UNCHANGED <<urlCache, badge, settings, inflight, pendingNotif, pageLinksStats, bulk, events>>

\* the time between two steps of the worker, counted in whole TTLs
Tick == TickBy(CACHE_TTL)

\* the same, counted in single ticks
TickFine == TickBy(1)

\* chrome.runtime.onInstalled
OnInstalled ==
    /\ settings' = "true"
    /\ pageLinksStats' = {}
    /\ last' = Obs("installed", NoUrl, 1)
    /\ UNCHANGED <<now, urlCache, badge, inflight, pendingNotif, bulk, events>>

\* a hit renews the timestamp of the entry it returns
scanUrlTouch(url, tab, via, op) ==
    LET cacheKey == toLowerCase(url)
        cached == MapGet(urlCache, cacheKey)
        age == IF cached = NoEntry THEN -1 ELSE now - cached.timestamp
        o == [Obs(op, url, tab) EXCEPT !.scanned = TRUE, !.entryAge = age,
                                       !.first = BadgeLoading]
    IN  /\ IF cached # NoEntry /\ CacheFresh(cached, now)
           THEN /\ badge' = [badge EXCEPT ![tab] = updateBadge(RiskOf(cached.result))]
                /\ inflight' = inflight
                /\ urlCache' = MapSet(urlCache, cacheKey, cached.result, now)
                /\ last' = [o EXCEPT !.hit = TRUE, !.ret = cached.result,
                                     !.risk = RiskOf(cached.result),
                                     !.reply = IF via = "rpc" THEN cached.result ELSE NoValue]
           ELSE /\ Len(inflight) < MaxInflight
                /\ badge' = [badge EXCEPT ![tab] = BadgeLoading]
                /\ inflight' = Append(inflight, [url |-> url, tab |-> tab, via |-> via])
                /\ urlCache' = urlCache
                /\ last' = [o EXCEPT !.fetched = TRUE, !.ret = Pending]
        /\ UNCHANGED <<now, settings, pendingNotif, pageLinksStats, bulk>>

\* scanUrl(...).then(result => sendResponse(result)): the message listener
\* passes on what scanUrl resolved to; the listeners of tab events drop it
sendResponse(via, result) == IF via = "rpc" THEN result ELSE NoValue

\* scanUrl(url, tabId) up to its return from the cache or its `await fetch`
scanUrl(url, tab, via, op) ==
    LET cacheKey == toLowerCase(url)
        cached == MapGet(urlCache, cacheKey)
        age == IF cached = NoEntry THEN -1 ELSE now - cached.timestamp
        o == [Obs(op, url, tab) EXCEPT !.scanned = TRUE, !.entryAge = age,
                                       !.first = BadgeLoading]
    IN  /\ IF cached # NoEntry /\ CacheFresh(cached, now)
           THEN /\ badge' = [badge EXCEPT ![tab] = updateBadge(RiskOf(cached.result))]
                /\ inflight' = inflight
                /\ last' = [o EXCEPT !.hit = TRUE, !.ret = cached.result,
                                     !.risk = RiskOf(cached.result),
                                     !.reply = sendResponse(via, cached.result)]
           ELSE /\ Len(inflight) < MaxInflight
                /\ badge' = [badge EXCEPT ![tab] = BadgeLoading]
                /\ inflight' = Append(inflight, [url |-> url, tab |-> tab, via |-> via])
                /\ last' = [o EXCEPT !.fetched = TRUE, !.ret = Pending]
        /\ UNCHANGED <<now, urlCache, settings, pendingNotif, pageLinksStats, bulk>>

\* a listener that does nothing to the state
Ignore(op, url, tab) ==
    /\ last' = Obs(op, url, tab)
    /\ UNCHANGED <<now, urlCache, badge, settings, inflight, pendingNotif, pageLinksStats, bulk>>

\* chrome.tabs.onActivated; getOk = FALSE: chrome.tabs.get rejects
OnActivated(tab, url, getOk) ==
    IF ~getOk THEN Ignore("activated", NoUrl, tab)
    ELSE IF url # NoUrl /\ startsWith(url, HTTP)
    THEN scanUrl(url, tab, "event", "activated")
    ELSE /\ badge' = [badge EXCEPT ![tab] = ClearText(badge[tab])]
         /\ last' = Obs("activated", url, tab)
         /\ UNCHANGED <<now, urlCache, settings, inflight, pendingNotif, pageLinksStats, bulk>>

\* chrome.tabs.onUpdated
OnUpdated(tab, status, url) ==
    IF status = "complete" /\ url # NoUrl /\ startsWith(url, HTTP)
    THEN scanUrl(url, tab, "event", "updated")
    ELSE Ignore(IF status = "complete" THEN "updated" ELSE "updating", url, tab)

\* chrome.webNavigation.onCompleted
OnNavCompleted(tab, frameId, url) ==
    IF frameId = 0 /\ startsWith(url, HTTP)
    THEN scanUrl(url, tab, "event", "navCompleted")
    ELSE Ignore(IF frameId = 0 THEN "navCompleted" ELSE "subframeCompleted", url, tab)

\* runtime.onMessage, action 'scanUrl'
RpcScanUrl(tab, url) == scanUrl(url, tab, "rpc", "rpcScanUrl")

\* runtime.onMessage, action 'updateBadge'
RpcUpdateBadge(tab, risk) ==
    /\ badge' = [badge EXCEPT ![tab] = updateBadge(risk)]
    /\ last' = [Obs("rpcUpdateBadge", NoUrl, tab) EXCEPT !.reply = [success |-> TRUE],
                                                         !.risk = risk]
    /\ UNCHANGED <<now, urlCache, settings, inflight, pendingNotif, pageLinksStats, bulk>>

\* does `await fetch` / `await response.json()` / `if (result.error)` throw?
\* A network error rejects fetch, a body that is not JSON rejects json(),
\* null.error is a TypeError, a truthy error field is thrown.
ScanThrows(resp) ==
    \/ resp = NetworkError
    \/ /\ resp # NetworkError
       /\ \/ resp.body = NotJson
          \/ resp.body = JsonNull
          \/ Has(resp.body, "error")

RemoveAt(s, i) == SubSeq(s, 1, i - 1) \o SubSeq(s, i + 1, Len(s))

\* scanUrl from the completion of its fetch to its return
ScanComplete(i, resp) ==
    LET sc == inflight[i]
        o == [Obs("scanDone", sc.url, sc.tab) EXCEPT !.scanned = TRUE, !.resp = resp,
                                                     !.slot = i]
    IN  /\ inflight' = RemoveAt(inflight, i)
        /\ IF ScanThrows(resp)
           THEN /\ badge' = [badge EXCEPT ![sc.tab] = BadgeError]
                /\ last' = [o EXCEPT !.ret = Null, !.reply = sendResponse(sc.via, Null)]
                /\ UNCHANGED <<urlCache, pendingNotif>>
           ELSE LET result == resp.body
                    afterSet == MapSet(urlCache, toLowerCase(sc.url), result, now)
                    swept == SweepExpired(afterSet, now)
                    evicted == {swept[j].timestamp : j \in {k \in DOMAIN swept :
                                    swept[k].key \notin MapKeys(LimitSize(swept))}}
                IN
                /\ urlCache' = cleanCache(afterSet, now)
                /\ badge' = [badge EXCEPT ![sc.tab] = updateBadge(RiskOf(result))]
                /\ IF RiskOf(result) = "malicious"
                   THEN /\ Len(pendingNotif) < MaxNotif
                        /\ pendingNotif' = Append(pendingNotif, [score |-> result.score])
                   ELSE pendingNotif' = pendingNotif
                /\ last' = [o EXCEPT !.stored = TRUE, !.ret = result,
                                     !.reply = sendResponse(sc.via, result),
                                     !.risk = RiskOf(result),
                                     !.replaced = MapGet(urlCache, toLowerCase(sc.url)),
                                     !.setSize = Len(afterSet), !.sweptSize = Len(swept),
                                     !.evictedNewest = IF evicted = {} THEN -1
                                                       ELSE CHOOSE x \in evicted : \A y \in evicted : y <= x,
                                     !.notify = (RiskOf(result) = "malicious")]
        /\ UNCHANGED <<now, settings, pageLinksStats, bulk, events>>

\* the setting is not consulted
NotificationsOnAlways(data) == TRUE

\* data.showNotifications !== false
NotificationsOn(data) == data # "false"

\* the callback of chrome.storage.local.get in showNotification.  readOk =
\* FALSE: the read failed, chrome calls the callback without data and
\* data.showNotifications is a TypeError
NotifyCallback(readOk) ==
    /\ pendingNotif # <<>>
    /\ pendingNotif' = Tail(pendingNotif)
    /\ last' = [Obs("notify", NoUrl, 1) EXCEPT
                   !.setting = IF readOk THEN settings ELSE "unreadable",
                   !.alert = readOk /\ NotificationsOn(settings)]
    /\ UNCHANGED <<now, urlCache, badge, settings, inflight, pageLinksStats, bulk, events>>

TabUrls == Urls \cup {NoUrl}

\* the browser delivers one more event or message
Deliver == events < MaxEvents /\ events' = events + 1

Next ==
    \/ Tick
    \/ OnInstalled
    \/ \E t \in TabIds, u \in TabUrls, ok \in BOOLEAN : Deliver /\ OnActivated(t, u, ok)
    \/ \E t \in TabIds, st \in {"loading", "complete"}, u \in TabUrls : Deliver /\ OnUpdated(t, st, u)
    \/ \E t \in TabIds, f \in {0, 1}, u \in Urls : Deliver /\ OnNavCompleted(t, f, u)
    \/ \E t \in TabIds, u \in Urls : Deliver /\ RpcScanUrl(t, u)
    \/ \E t \in TabIds, r \in Risks : Deliver /\ RpcUpdateBadge(t, r)
    \/ \E i \in DOMAIN inflight, resp \in Responses : ScanComplete(i, resp)
    \/ \E ok \in BOOLEAN : NotifyCallback(ok)

Spec == Init /\ [][Next]_vars

\* The worker runs every callback that is ready (time passes, the storage
\* callback of showNotification is called); nothing in the code makes a
\* pending fetch settle, so the completion of a scan has no fairness
SpecLive == Spec /\ WF_vars(Tick) /\ WF_vars(\E ok \in BOOLEAN : NotifyCallback(ok))

\* The cache under scanUrl messages alone, with the clock in single ticks:
\* entries are met at every age from 0 to MaxTime
InitCache == Init /\ settings = "true"

NextCache ==
    \/ TickFine
    \/ \E t \in TabIds, u \in Urls : Deliver /\ RpcScanUrl(t, u)
    \/ \E i \in DOMAIN inflight, resp \in Responses : ScanComplete(i, resp)
    \/ \E ok \in BOOLEAN : NotifyCallback(ok)

SpecCache == InitCache /\ [][NextCache]_vars

-----------------------------------------------------------------------------
(* Popup: scanPageLinks *)

Min(a, b) == IF a < b THEN a ELSE b

\* [...new Set(response.links)]: the first occurrence of each link, in order
RECURSIVE dedupe(_)
dedupe(links) ==
    IF links = <<>> THEN <<>>
    ELSE LET front == dedupe(SubSeq(links, 1, Len(links) - 1))
             x == links[Len(links)]
         IN IF \E i \in DOMAIN front : front[i] = x THEN front ELSE Append(front, x)

\* no limit on the links scanned
cappedAll(links) == links

\* links.slice(0, 50)
capped(links) == SubSeq(links, 1, Min(LINK_LIMIT, Len(links)))

NewStats(links) == [total |-> Len(links), safe |-> 0, suspicious |-> 0, malicious |-> 0]

\* a response without a known risk is taken for a safe one
countRiskElseSafe(stats, risk) ==
    CASE risk = "suspicious" -> [stats EXCEPT !.suspicious = @ + 1]
      [] risk = "malicious" -> [stats EXCEPT !.malicious = @ + 1]
      [] OTHER -> [stats EXCEPT !.safe = @ + 1]

\* the three counters of the loop body
countRisk(stats, risk) ==
    CASE risk = "safe" -> [stats EXCEPT !.safe = @ + 1]
      [] risk = "suspicious" -> [stats EXCEPT !.suspicious = @ + 1]
      [] risk = "malicious" -> [stats EXCEPT !.malicious = @ + 1]
      [] OTHER -> stats

LinkUrls == {UrlA, UrlB, UrlFtp}
PageUrls == {UrlA, UrlB}

LinkLists == UNION {[1..n -> LinkUrls] : n \in 0..MaxLinks}

\* what chrome.tabs.sendMessage({ action: 'getLinks' }) resolves to
NoResponse == [noResponse |-> TRUE]
NoLinks == [other |-> TRUE]                 \* a response without links
LinkResponses == {NoResponse, NoLinks} \cup [links : LinkLists]

\* the pageLinksStats object in storage: a set of <<page URL, stats>> pairs,
\* one per page URL
StatsOf(obj, page) == {e \in obj : e[1] = page}
\* the object written holds the record of this page alone
PutStatsAlone(obj, page, stats) == {<<page, stats>>}

PutStats(obj, page, stats) == (obj \ StatsOf(obj, page)) \cup {<<page, stats>>}

OldStats == [total |-> 1, safe |-> 1, suspicious |-> 0, malicious |-> 0]

InitPopup ==
    /\ now = 0
    /\ urlCache = <<>>
    /\ badge = [t \in TabIds |-> [text |-> "", color |-> NoColor]]
    /\ settings = "true"
    /\ inflight = <<>>
    /\ pendingNotif = <<>>
    /\ pageLinksStats \in {{}, {<<UrlA, OldStats>>}, {<<UrlA, OldStats>>, <<UrlB, OldStats>>}}
    /\ bulk = BulkIdle
    /\ events = 0
    /\ last = Obs("start", NoUrl, 1)

BackgroundVars == <<now, urlCache, badge, settings, inflight, pendingNotif, events>>

\* click on scanLinksBtn up to the start of the loop; sendOk = FALSE:
\* chrome.tabs.sendMessage rejects
BulkStart(page, sendOk, response) ==
    /\ bulk.pc = "idle"
    /\ events < MaxRuns
    /\ events' = events + 1
    /\ IF ~sendOk \/ response = NoResponse \/ ~Has(response, "links")
       THEN /\ bulk' = BulkIdle
            /\ last' = Obs("bulkFailed", page, 1)
       ELSE LET links == dedupe(response.links) IN
            /\ bulk' = [pc |-> "loop", page |-> page, links |-> links, i |-> 1,
                        stats |-> NewStats(links), calls |-> 0,
                        shown |-> [total |-> Len(links)]]
            /\ last' = [Obs("bulkStart", page, 1) EXCEPT !.ret = [raw |-> response.links]]
    /\ UNCHANGED <<now, urlCache, badge, settings, inflight, pendingNotif, pageLinksStats>>

\* the fetch for the next link is issued without waiting for the previous one
BulkFetchEager ==
    /\ bulk.pc \in {"loop", "fetching"}
    /\ bulk.calls < Len(capped(bulk.links))
    /\ bulk' = [bulk EXCEPT !.pc = "fetching", !.calls = @ + 1]
    /\ last' = [Obs("bulkFetch", capped(bulk.links)[bulk.calls + 1], 1) EXCEPT !.fetched = TRUE]
    /\ UNCHANGED <<BackgroundVars, pageLinksStats>>

\* the loop issues the fetch for the next link of links.slice(0, 50)
BulkFetch ==
    /\ bulk.pc = "loop"
    /\ bulk.i <= Len(capped(bulk.links))
    /\ bulk' = [bulk EXCEPT !.pc = "fetching", !.calls = @ + 1]
    /\ last' = [Obs("bulkFetch", capped(bulk.links)[bulk.i], 1) EXCEPT !.fetched = TRUE]
    /\ UNCHANGED <<BackgroundVars, pageLinksStats>>

\* does the loop body throw into its catch?  A network error rejects fetch, a
\* body that is not JSON rejects json(), null.risk is a TypeError
LinkThrows(resp) ==
    \/ resp = NetworkError
    \/ /\ resp # NetworkError
       /\ resp.body \in {NotJson, JsonNull}

\* the fetch of the current link completes and the loop body finishes
BulkResponse(resp) ==
    /\ bulk.pc = "fetching"
    /\ IF LinkThrows(resp)
       THEN bulk' = [bulk EXCEPT !.pc = "loop", !.i = @ + 1]
       ELSE LET stats == countRisk(bulk.stats, RiskOf(resp.body)) IN
            bulk' = [bulk EXCEPT !.pc = "loop", !.i = @ + 1, !.stats = stats, !.shown = stats]
    /\ last' = [Obs("bulkResponse", capped(bulk.links)[bulk.i], 1) EXCEPT
                   !.resp = resp, !.ret = [before |-> bulk.stats, i |-> bulk.i]]
    /\ UNCHANGED <<BackgroundVars, pageLinksStats>>

\* after the loop: chrome.storage.local.get(['pageLinksStats']); getOk = FALSE:
\* the read rejects and the outer catch ends the run
BulkLoadStats(getOk) ==
    /\ bulk.pc = "loop"
    /\ bulk.i > Len(capped(bulk.links))
    /\ IF getOk
       THEN bulk' = [pc |-> "saving", page |-> bulk.page, links |-> bulk.links,
                     stats |-> bulk.stats, calls |-> bulk.calls, loaded |-> pageLinksStats]
       ELSE bulk' = BulkIdle
    /\ last' = Obs(IF getOk THEN "bulkLoad" ELSE "bulkFailed", bulk.page, 1)
    /\ UNCHANGED <<BackgroundVars, pageLinksStats>>

\* pageLinksStats[this.currentUrl] = stats; chrome.storage.local.set
BulkStoreStats ==
    /\ bulk.pc = "saving"
    /\ pageLinksStats' = PutStats(bulk.loaded, bulk.page, bulk.stats)
    /\ bulk' = BulkIdle
    /\ last' = [Obs("bulkDone", bulk.page, 1) EXCEPT
                   !.ret = [stats |-> bulk.stats, calls |-> bulk.calls, links |-> bulk.links,
                            before |-> pageLinksStats]]
    /\ UNCHANGED BackgroundVars

NextPopup ==
    \/ \E pg \in PageUrls, ok \in BOOLEAN, r \in LinkResponses : BulkStart(pg, ok, r)
    \/ BulkFetch
    \/ \E resp \in Responses : BulkResponse(resp)
    \/ \E ok \in BOOLEAN : BulkLoadStats(ok)
    \/ BulkStoreStats
    \* an install or update reloads the extension, which closes the popup: the
    \* new worker's onInstalled never runs during a scan of the old popup
    \/ bulk.pc = "idle" /\ OnInstalled

SpecPopup == InitPopup /\ [][NextPopup]_vars

-----------------------------------------------------------------------------
(* Properties *)

ScanEntryOps == {"activated", "updated", "navCompleted", "rpcScanUrl"}

\* the step entered scanUrl(url, tab) from a listener
ScanStarted == last.op \in ScanEntryOps /\ last.scanned

\* C1: a scan that finds a cache entry stored more than CACHE_TTL ago does not
\* return it: the scan is a miss and issues a remote call, although the entry
\* is still in the cache.
C1_ExpiredEntryIsMiss ==
    (ScanStarted /\ last.entryAge > CACHE_TTL)
        => (~last.hit /\ last.fetched /\ last.ret = Pending)

C1_Witness ==
    /\ ScanStarted
    /\ last.entryAge > CACHE_TTL
    /\ last.fetched
    /\ MapGet(urlCache, toLowerCase(last.url)) # NoEntry

\* every retained entry is at least as recent as every entry the size limit deleted
RetainedMostRecent == \A i \in DOMAIN urlCache : urlCache[i].timestamp >= last.evictedNewest

\* C2 as stated: the cache never holds more than CACHE_MAX entries, and whenever
\* the insertion of a put takes the size above CACHE_MAX, the size after the put
\* is CACHE_KEEP and the retained entries are the most recently stored ones.
C2_Original ==
    /\ Len(urlCache) <= CACHE_MAX
    /\ (last.stored /\ last.setSize > CACHE_MAX)
           => (Len(urlCache) = CACHE_KEEP /\ RetainedMostRecent)

\* C2 amended: the cache never holds more than CACHE_MAX entries, and whenever
\* the size is still above CACHE_MAX after the expired entries have been swept
\* following the insertion, the size after the put is CACHE_KEEP and the
\* retained entries are the most recently stored ones; otherwise the put
\* deletes nothing but expired entries.
C2_CapacityAfterSweep ==
    /\ Len(urlCache) <= CACHE_MAX
    /\ (last.stored /\ last.sweptSize > CACHE_MAX)
           => (Len(urlCache) = CACHE_KEEP /\ last.evictedNewest >= 0 /\ RetainedMostRecent)
    /\ (last.stored /\ last.sweptSize <= CACHE_MAX)
           => (Len(urlCache) = last.sweptSize /\ last.evictedNewest = -1)

\* a put halved the cache and an older entry went while newer ones stayed
C2_Witness ==
    /\ last.stored
    /\ last.sweptSize > CACHE_MAX
    /\ Len(urlCache) = CACHE_KEEP
    /\ last.evictedNewest >= 0
    /\ \E i \in DOMAIN urlCache : urlCache[i].timestamp > last.evictedNewest

\* C3 as stated: for a URL that does not begin with http:// or https://,
\* whichever listener or message brought it, scanUrl is not entered (no cache
\* access), no remote call is issued and the tab's badge is Cleared.
C3_Original ==
    (last.op \in ScanEntryOps /\ last.url # NoUrl /\ ~Eligible(last.url))
        => (~last.scanned /\ ~last.fetched /\ BadgeState(badge[last.tab]) = "Cleared")

\* C4 as stated: with notifications enabled, every scan that returns a
\* Malicious verdict, from the remote service or from the cache, calls for one
\* alert.
C4_Original ==
    (last.scanned /\ settings = "true" /\ RiskOf(last.ret) = "malicious")
        => last.notify

RemoteFailed(resp) ==
    \/ resp = NetworkError
    \/ /\ resp # NetworkError
       /\ \/ resp.status # 200
          \/ ~Has(resp.body, "risk")
          \/ Has(resp.body, "error")

\* C5 as stated: when the remote call fails (network error, non-2xx status,
\* payload without the expected fields, error field), the badge is Error, scan
\* returns null and nothing is stored in the cache.
C5_Original ==
    (last.op = "scanDone" /\ RemoteFailed(last.resp))
        => (BadgeState(badge[last.tab]) = "Error" /\ last.ret = Null /\ ~last.stored)

\* C6: a scan that finds a cache entry younger than CACHE_TTL returns the
\* result stored in that entry, sets the badge from its risk and issues no
\* remote call.
C6_FreshEntryIsHit ==
    (ScanStarted /\ last.entryAge >= 0 /\ last.entryAge < CACHE_TTL)
        => /\ last.hit
           /\ ~last.fetched
           /\ \E i \in DOMAIN urlCache :
                  /\ urlCache[i].key = toLowerCase(last.url)
                  /\ urlCache[i].result = last.ret
                  /\ now - urlCache[i].timestamp = last.entryAge
           /\ badge[last.tab] = updateBadge(RiskOf(last.ret))

C6_Witness ==
    /\ ScanStarted
    /\ last.hit
    /\ last.ret = VerdictSuspicious
    /\ BadgeState(badge[last.tab]) = "Suspicious"
    /\ inflight = <<>>

UpperChars == {"A", "B", "H", "T", "P"}

IsLowerCase(url) == \A i \in DOMAIN url : url[i] \notin UpperChars

SameIgnoringCase(a, b) ==
    /\ Len(a) = Len(b)
    /\ \A i \in DOMAIN a : LowerChar(a[i]) = LowerChar(b[i])

\* C7: every key of the cache is lower-case, URLs that differ only in letter
\* case share one entry, and a scan of a URL that differs only in letter case
\* from the key of an entry younger than CACHE_TTL is a hit on that entry.
C7_KeysCaseFolded ==
    /\ \A i \in DOMAIN urlCache : IsLowerCase(urlCache[i].key)
    /\ \A i, j \in DOMAIN urlCache :
           SameIgnoringCase(urlCache[i].key, urlCache[j].key) => i = j
    /\ \A i \in DOMAIN urlCache :
           (/\ ScanStarted
            /\ SameIgnoringCase(urlCache[i].key, last.url)
            /\ now - urlCache[i].timestamp < CACHE_TTL)
               => (last.hit /\ last.ret = urlCache[i].result)

\* the URL with the capital letter is served from the entry with the lower-case key
C7_Witness ==
    /\ ScanStarted
    /\ last.url = UrlAUpper
    /\ last.hit
    /\ \E i \in DOMAIN urlCache : urlCache[i].key = UrlA /\ urlCache[i].result = last.ret

\* C8: when the storage callback of showNotification sees showNotifications =
\* false, no alert is created.
C8_DisabledNoAlert ==
    (last.op = "notify" /\ last.setting = "false") => ~last.alert

C8_Witness ==
    /\ last.op = "notify"
    /\ last.setting = "false"
    /\ ~last.alert

\* C9 as stated: when the showNotifications key is absent or the read of the
\* store fails, the alert is still created.
C9_Original ==
    (last.op = "notify" /\ last.setting \in {"absent", "unreadable"}) => last.alert

Range(seq) == {seq[i] : i \in DOMAIN seq}

NoDuplicates(seq) == \A i, j \in DOMAIN seq : seq[i] = seq[j] => i = j

Counted(stats) == stats.safe + stats.suspicious + stats.malicious

\* C10: the bulk scan works on the link list without duplicates, issues its
\* k-th remote call for the k-th distinct link and none beyond LINK_LIMIT, and
\* reports total = the number of distinct links, not the number scanned; a run
\* over more than LINK_LIMIT distinct links ends with exactly LINK_LIMIT calls.
C10_BulkCap ==
    /\ (last.op = "bulkStart")
           => (NoDuplicates(bulk.links) /\ Range(bulk.links) = Range(last.ret.raw))
    /\ (bulk.pc \in {"loop", "fetching"})
           => /\ bulk.stats.total = Len(bulk.links)
              /\ bulk.calls <= LINK_LIMIT
              /\ Counted(bulk.stats) <= bulk.calls
    /\ (last.op = "bulkFetch")
           => /\ bulk.calls = bulk.i
              /\ last.url = bulk.links[bulk.i]
    /\ (last.op = "bulkDone")
           => /\ last.ret.calls = Min(LINK_LIMIT, Len(last.ret.links))
              /\ last.ret.stats.total = Len(last.ret.links)
              /\ Counted(last.ret.stats) <= LINK_LIMIT

C10_Witness ==
    /\ last.op = "bulkDone"
    /\ Len(last.ret.links) > LINK_LIMIT
    /\ last.ret.calls = LINK_LIMIT
    /\ last.ret.stats.total = LINK_LIMIT + 1
    /\ Counted(last.ret.stats) = LINK_LIMIT

C12_Original ==
    (last.scanned /\ last.reply # NoValue)
        => /\ last.reply # Null
           /\ (last.ret = Null) => Has(last.reply, "error")

TerminalStates == {"Safe", "Suspicious", "Malicious", "Error", "Unknown"}

\* C13 as stated: every scan that is waiting for its remote call eventually
\* terminates, and a badge that shows Loading eventually shows a terminal
\* state.
C13_Original ==
    /\ (inflight # <<>>) ~> (inflight = <<>>)
    /\ \A t \in TabIds :
           (BadgeState(badge[t]) = "Loading") ~> (BadgeState(badge[t]) \in TerminalStates)

\* the badge state named by a risk
NamedState(risk) ==
    CASE risk = "safe" -> "Safe"
      [] risk = "suspicious" -> "Suspicious"
      [] risk = "malicious" -> "Malicious"
      [] OTHER -> "Unknown"

\* scans waiting for their remote call with the cache key of url
InFlightFor(url) == {i \in DOMAIN inflight : toLowerCase(inflight[i].url) = toLowerCase(url)}

\* C14: scans in flight at once are neither coalesced nor cancelled.  A scan
\* that misses the cache issues its own remote call, whatever is already in
\* flight; and each response, in whatever order the responses come, writes the
\* badge of its tab and, when it is a result, the cache entry of its URL over
\* what an earlier response wrote, so that after the last response the badge
\* and the entry are the ones of that response.
C14_LastResponseWins ==
    /\ (ScanStarted /\ ~last.hit)
           => /\ last.fetched
              /\ inflight # <<>>
              /\ inflight[Len(inflight)].url = last.url
              /\ inflight[Len(inflight)].tab = last.tab
    /\ (last.op = "scanDone" /\ last.stored)
           => /\ MapGet(urlCache, toLowerCase(last.url))
                     = [key |-> toLowerCase(last.url), result |-> last.ret, timestamp |-> now]
              /\ BadgeState(badge[last.tab]) = NamedState(RiskOf(last.ret))
    /\ (last.op = "scanDone" /\ ~last.stored)
           => BadgeState(badge[last.tab]) = "Error"

\* the last of the scans of one URL to be answered overwrites the different
\* result that another scan stored while it was in flight
C14_Witness ==
    /\ last.op = "scanDone"
    /\ last.stored
    /\ InFlightFor(last.url) = {}
    /\ last.replaced # NoEntry
    /\ now - last.replaced.timestamp < CACHE_TTL
    /\ last.replaced.result = VerdictMalicious
    /\ last.ret = VerdictSafe
    /\ MapGet(urlCache, toLowerCase(last.url)).result = VerdictSafe
    /\ BadgeState(badge[last.tab]) = "Safe"

VerdictStates == {"Safe", "Suspicious", "Malicious"}

\* scans of the tab of the last step that started after the scan just answered
\* and are still waiting for their remote call
StartedLater == {i \in DOMAIN inflight : i >= last.slot /\ inflight[i].tab = last.tab}

\* C15 as stated: while a scan of a tab is waiting for its remote call, the
\* badge of the tab does not show the verdict of a scan that started before it.
C15_Original ==
    (last.op = "scanDone" /\ StartedLater # {})
        => BadgeState(badge[last.tab]) \notin VerdictStates

\* C15 amended: scanUrl sets the badge to Loading before it reads the cache, and
\* the badge shows Loading at the moment the scan suspends on its remote call
\* (what another event of the tab writes afterwards stays on the badge).
C15_LoadingBeforeIO ==
    /\ ScanStarted => (last.first # NoValue /\ BadgeState(last.first) = "Loading")
    /\ (ScanStarted /\ last.fetched) => BadgeState(badge[last.tab]) = "Loading"

\* a scan that found an expired entry is waiting for the service, badge on Loading
C15_Witness ==
    /\ ScanStarted
    /\ last.fetched
    /\ last.entryAge >= CACHE_TTL
    /\ BadgeState(badge[last.tab]) = "Loading"
    /\ \E i \in DOMAIN inflight : inflight[i].url = last.url /\ inflight[i].tab = last.tab

KnownRisks == {"safe", "suspicious", "malicious"}

\* C16: a result of the remote service sets the badge from its risk, and
\* wherever the badge is set from a risk, safe gives Safe, suspicious gives
\* Suspicious and malicious gives Malicious; the badge becomes Unknown only for
\* a risk that is none of the three, and Unknown has the colour of Error.
C16_BadgeFromRisk ==
    /\ (last.op = "scanDone" /\ last.stored)
           => (last.risk # "none" /\ last.risk = RiskOf(last.ret))
    /\ (last.risk # "none")
           => /\ (last.risk = "safe") => BadgeState(badge[last.tab]) = "Safe"
              /\ (last.risk = "suspicious") => BadgeState(badge[last.tab]) = "Suspicious"
              /\ (last.risk = "malicious") => BadgeState(badge[last.tab]) = "Malicious"
              /\ (BadgeState(badge[last.tab]) = "Unknown") => last.risk \notin KnownRisks
    /\ \A t \in TabIds :
           (BadgeState(badge[t]) = "Unknown") => badge[t].color = BadgeError.color

\* the answer of the service moved the badge from Loading to Suspicious
C16_Witness ==
    /\ last.op = "scanDone"
    /\ last.stored
    /\ last.risk = "suspicious"
    /\ BadgeState(badge[last.tab]) = "Suspicious"
    /\ badge[last.tab].color # BadgeError.color

LifecycleOps == {"activated", "updated", "navCompleted"}

\* C17 as stated: after a tab activation, a completed tab update or a completed
\* top-frame navigation that reports a URL other than http:// or https://, the
\* badge of the tab is Cleared.
C17_Original ==
    (last.op \in LifecycleOps /\ last.url # NoUrl /\ ~Eligible(last.url))
        => BadgeState(badge[last.tab]) = "Cleared"

\* the risk the answer to a link carries, "undefined" for no answer or no risk
AnsweredRisk(resp) == IF resp = NetworkError THEN "undefined" ELSE RiskOf(resp.body)

OneIf(cond) == IF cond THEN 1 ELSE 0

\* C18: a bulk scan has at most one remote call outstanding: when the call
\* for link i is pending, i calls have been issued and i - 1 have settled, and
\* between two calls none is pending.  Each answer adds one to the counter of
\* its risk and to no other, and the counters shown after an answered link are
\* exactly the counters of the links settled so far.
C18_OneAtATime ==
    /\ (bulk.pc = "fetching") => (bulk.calls = bulk.i /\ last.op = "bulkFetch")
    /\ (last.op = "bulkFetch") => bulk.pc = "fetching"
    /\ (bulk.pc = "loop") => bulk.calls = bulk.i - 1
    /\ (last.op = "bulkResponse")
           => /\ bulk.stats.safe
                     = last.ret.before.safe + OneIf(AnsweredRisk(last.resp) = "safe")
              /\ bulk.stats.suspicious
                     = last.ret.before.suspicious + OneIf(AnsweredRisk(last.resp) = "suspicious")
              /\ bulk.stats.malicious
                     = last.ret.before.malicious + OneIf(AnsweredRisk(last.resp) = "malicious")
              /\ bulk.stats.total = last.ret.before.total
              /\ (AnsweredRisk(last.resp) \in KnownRisks) => bulk.shown = bulk.stats

\* the second link has been answered after the first: two calls, two counted
C18_Witness ==
    /\ last.op = "bulkResponse"
    /\ last.ret.i = 2
    /\ bulk.pc = "loop"
    /\ bulk.calls = 2
    /\ bulk.stats.safe = 1
    /\ bulk.stats.malicious = 1
    /\ bulk.shown = bulk.stats

\* the records of the pages other than page
OtherPages(obj, page) == {e \in obj : e[1] # page}

\* C19: when a bulk scan stores its stats, the record of the current page in
\* storage becomes exactly the new stats, whatever it was, and the records of
\* all other pages are the ones storage held before.
C19_RecordReplaced ==
    (last.op = "bulkDone")
        => /\ StatsOf(pageLinksStats, last.url) = {<<last.url, last.ret.stats>>}
           /\ OtherPages(pageLinksStats, last.url) = OtherPages(last.ret.before, last.url)

\* the old record of the page is gone, the record of another page is still there
C19_Witness ==
    /\ last.op = "bulkDone"
    /\ <<last.url, OldStats>> \in last.ret.before
    /\ last.ret.stats # OldStats
    /\ <<last.url, OldStats>> \notin pageLinksStats
    /\ <<last.url, last.ret.stats>> \in pageLinksStats
    /\ OtherPages(pageLinksStats, last.url) # {}

\* C20: a scan served from the cache leaves the cache as it was (no entry gets
\* a new timestamp, none is swept) and returns the result of an entry stored
\* less than CACHE_TTL ago; the cache changes only in the step in which scanUrl
\* stores the result of a remote call it accepted.
C20_HitLeavesCache ==
    [][ /\ (last'.scanned /\ last'.hit)
             => /\ urlCache' = urlCache
                /\ \E i \in DOMAIN urlCache :
                       /\ urlCache[i].key = toLowerCase(last'.url)
                       /\ urlCache[i].result = last'.ret
                       /\ now' - urlCache[i].timestamp >= 0
                       /\ now' - urlCache[i].timestamp < CACHE_TTL
        /\ (urlCache' # urlCache)
             => (last'.op = "scanDone" /\ last'.stored /\ ~ScanThrows(last'.resp))
      ]_vars

\* a hit on an entry stored one tick earlier, beside an entry old enough for a
\* sweep to delete: both are still in the cache with their timestamps
C20_Witness ==
    /\ last.scanned
    /\ last.hit
    /\ last.entryAge > 0
    /\ \E i \in DOMAIN urlCache :
           /\ urlCache[i].key = toLowerCase(last.url)
           /\ now - urlCache[i].timestamp = last.entryAge
    /\ \E j \in DOMAIN urlCache : now - urlCache[j].timestamp > CACHE_TTL

====
